---- MODULE Spec2Model ----
(***************************************************************************)
(* The fixZ visitor of getSVGOPlugins (src/@iconify/tools/src/optimise/    *)
(* svgo.ts, lines 23-144): for every element that carries a parsed path    *)
(* (pathJS), one left-to-right pass tracks the pen position and replaces   *)
(* each lineto-family entry that returns to the sub-path start with a      *)
(* zero-argument closepath.                                                *)
(*                                                                         *)
(* A path is a sequence of items [command |-> letter, args |-> numbers].   *)
(* JavaScript arrays are 0-based: Arg(item, j) reads args[j] of the        *)
(* source.  Coordinates are small integers, on which the double arithmetic *)
(* of the source (+, ==) is exact.                                         *)
(***************************************************************************)
EXTENDS Integers, Sequences, FiniteSets

VARIABLES
    input,    \* the pathJS array every path element carries before any visit
    elems,    \* the document: elems[k] is element k, a record that may have a pathJS field
    k,        \* index of the next element the traversal visits
    round,    \* number of the current traversal of the document
    entry,    \* pathJS of the element visited last, as it was when enter() began
    trace     \* locals of the last enter(): trace[1] at loop entry, trace[i+1] after entry i

vars == <<input, elems, k, round, entry, trace>>

\* ---------------------------------------------------------------- bounds
MaxLen == 2
MaxRounds == 2

\* ---------------------------------------------------------------- inputs
Coords == {-1, 0, 1}
Points == {<<0, 0>>, <<1, 0>>, <<0, 1>>, <<1, 1>>, <<-1, -1>>}
EndPoints == {<<0, 0>>, <<1, 1>>}

\* control-point / radius / rotation / flag arguments that precede the endpoint
Control(command) ==
    CASE command \in {"c", "C"} -> <<5, 6, 7, 8>>
      [] command \in {"s", "S"} -> <<5, 6>>
      [] command \in {"q", "Q"} -> <<7, 8>>
      [] command \in {"a", "A"} -> <<2, 3, 45, 0, 1>>
      [] OTHER -> <<>>

Item(command, args) == [command |-> command, args |-> args]

Items ==
    {Item(c, p) : c \in {"m", "M", "l", "L"}, p \in Points}
    \cup {Item(c, <<x>>) : c \in {"h", "H", "v", "V"}, x \in Coords}
    \cup {Item(c, Control(c) \o p) :
            c \in {"c", "C", "s", "S", "q", "Q", "t", "T", "a", "A"}, p \in EndPoints}
    \cup {Item(c, <<>>) : c \in {"z", "Z"}}

Paths == UNION {[1..n -> Items] : n \in 0..MaxLen}

\* a path element whose parsed data is cached as pathJS, and an element without it
PathElement(path) == [name |-> "path", pathJS |-> path]
OtherElement == [name |-> "g"]

\* documents: two path elements with the same data, or (for the shortest paths)
\* a container element followed by one path element
Documents(path) ==
    {<<PathElement(path), PathElement(path)>>}
    \cup (IF Len(path) <= 1 THEN {<<OtherElement, PathElement(path)>>} ELSE {})

\* ---------------------------------------------------------------- the pass
Arg(item, j) == item.args[j + 1]

NewLocals == [start |-> <<0, 0>>, cursor |-> <<0, 0>>]

\* variant: relative moveto moves the pen but does not record the sub-path start
MoveToKeepsStart(s, item) ==
    IF item.command = "m"
    THEN [s EXCEPT !.cursor = <<s.cursor[1] + Arg(item, 0), s.cursor[2] + Arg(item, 1)>>]
    ELSE IF item.command = "M"
    THEN LET c == <<Arg(item, 0), Arg(item, 1)>>
         IN  [start |-> c, cursor |-> c]
    ELSE s

MoveTo(s, item) ==
    IF item.command = "m"
    THEN LET c == <<s.cursor[1] + Arg(item, 0), s.cursor[2] + Arg(item, 1)>>
         IN  [start |-> c, cursor |-> c]
    ELSE IF item.command = "M"
    THEN LET c == <<Arg(item, 0), Arg(item, 1)>>
         IN  [start |-> c, cursor |-> c]
    ELSE s

\* variant: vertical lineto writes coordinate 0 instead of coordinate 1
LineToVerticalSlip(s, item) ==
    CASE item.command = "l" ->
            [s EXCEPT !.cursor = <<s.cursor[1] + Arg(item, 0), s.cursor[2] + Arg(item, 1)>>]
      [] item.command = "L" -> [s EXCEPT !.cursor = <<Arg(item, 0), Arg(item, 1)>>]
      [] item.command = "h" -> [s EXCEPT !.cursor[1] = s.cursor[1] + Arg(item, 0)]
      [] item.command = "H" -> [s EXCEPT !.cursor[1] = Arg(item, 0)]
      [] item.command = "v" -> [s EXCEPT !.cursor[1] = s.cursor[1] + Arg(item, 0)]
      [] item.command = "V" -> [s EXCEPT !.cursor[1] = Arg(item, 0)]
      [] OTHER -> s

LineTo(s, item) ==
    CASE item.command = "l" ->
            [s EXCEPT !.cursor = <<s.cursor[1] + Arg(item, 0), s.cursor[2] + Arg(item, 1)>>]
      [] item.command = "L" -> [s EXCEPT !.cursor = <<Arg(item, 0), Arg(item, 1)>>]
      [] item.command = "h" -> [s EXCEPT !.cursor[1] = s.cursor[1] + Arg(item, 0)]
      [] item.command = "H" -> [s EXCEPT !.cursor[1] = Arg(item, 0)]
      [] item.command = "v" -> [s EXCEPT !.cursor[2] = s.cursor[2] + Arg(item, 0)]
      [] item.command = "V" -> [s EXCEPT !.cursor[2] = Arg(item, 0)]
      [] OTHER -> s

LineFamily == {"l", "L", "h", "H", "v", "V"}

ClosePathItem == [command |-> "z", args |-> <<>>]

\* variant: the pen is compared with the origin, not with the sub-path start
FixZOrigin(s, item) ==
    IF item.command \in LineFamily /\ 0 = s.cursor[1] /\ 0 = s.cursor[2]
    THEN ClosePathItem
    ELSE item

\* variant: only the x coordinates are compared
FixZOnlyX(s, item) ==
    IF item.command \in LineFamily /\ s.start[1] = s.cursor[1]
    THEN ClosePathItem
    ELSE item

\* variant: the command letter is not tested
FixZAnyCommand(s, item) ==
    IF s.start[1] = s.cursor[1] /\ s.start[2] = s.cursor[2]
    THEN ClosePathItem
    ELSE item

FixZ(s, item) ==
    IF item.command \in LineFamily /\ s.start[1] = s.cursor[1] /\ s.start[2] = s.cursor[2]
    THEN ClosePathItem
    ELSE item

\* index (in the source's 0-based numbering) of the x coordinate of the endpoint
\* variant: smooth curveto reads its control point (args 0, 1) as the endpoint
EndIndexSmoothSlip(command) ==
    CASE command \in {"c", "C"} -> 4
      [] command \in {"s", "S"} -> 0
      [] command \in {"q", "Q"} -> 2
      [] command \in {"t", "T"} -> 0
      [] command \in {"a", "A"} -> 5

EndIndex(command) ==
    CASE command \in {"c", "C"} -> 4
      [] command \in {"s", "S"} -> 2
      [] command \in {"q", "Q"} -> 2
      [] command \in {"t", "T"} -> 0
      [] command \in {"a", "A"} -> 5

CurveTo(s, item) ==
    IF item.command \in {"c", "s", "q", "t", "a"}
    THEN LET e == EndIndex(item.command)
         IN  [s EXCEPT !.cursor = <<s.cursor[1] + Arg(item, e), s.cursor[2] + Arg(item, e + 1)>>]
    ELSE IF item.command \in {"C", "S", "Q", "T", "A"}
    THEN LET e == EndIndex(item.command)
         IN  [s EXCEPT !.cursor = <<Arg(item, e), Arg(item, e + 1)>>]
    ELSE s

\* variant: closepath sends the pen to the origin
ClosePathOrigin(s, item) ==
    IF item.command = "Z" \/ item.command = "z"
    THEN [s EXCEPT !.cursor = <<0, 0>>]
    ELSE s

ClosePath(s, item) ==
    IF item.command = "Z" \/ item.command = "z"
    THEN [s EXCEPT !.cursor = s.start]
    ELSE s

\* variant: the closing segment is removed (splice) instead of replaced
IterationSplice(path, i, s) ==
    LET pathItem == path[i]
        s1 == LineTo(MoveTo(s, pathItem), pathItem)
        p1 == IF FixZ(s1, pathItem) = pathItem
              THEN path
              ELSE SubSeq(path, 1, i - 1) \o SubSeq(path, i + 1, Len(path))
        s2 == ClosePath(CurveTo(s1, pathItem), pathItem)
    IN  [path |-> p1, locals |-> s2]

\* variant: the closure test runs before the lineto displacement is applied
IterationTestFirst(path, i, s) ==
    LET pathItem == path[i]
        s1 == LineTo(MoveTo(s, pathItem), pathItem)
        p1 == [path EXCEPT ![i] = FixZ(s, pathItem)]
        s2 == ClosePath(CurveTo(s1, pathItem), pathItem)
    IN  [path |-> p1, locals |-> s2]

\* one iteration of the for loop on path[i]; command and args are read from
\* pathItem before path[i] is assigned, so the later tests see the old letter
Iteration(path, i, s) ==
    LET pathItem == path[i]
        s1 == LineTo(MoveTo(s, pathItem), pathItem)
        p1 == [path EXCEPT ![i] = FixZ(s1, pathItem)]
        s2 == ClosePath(CurveTo(s1, pathItem), pathItem)
    IN  [path |-> p1, locals |-> s2]

RECURSIVE Loop(_, _, _, _)
Loop(path, i, s, tr) ==
    IF i > Len(path)
    THEN [path |-> path, trace |-> tr]
    ELSE LET r == Iteration(path, i, s)
         IN  Loop(r.path, i + 1, r.locals, Append(tr, r.locals))

ProcessPath(path) == Loop(path, 1, NewLocals, <<NewLocals>>)

\* ---------------------------------------------------------------- state machine
Init ==
    /\ input \in Paths
    /\ elems \in Documents(input)
    /\ k = 1
    /\ round = 1
    /\ entry = <<>>
    /\ trace = <<>>

\* variant: start and cursor outlive the call (declared outside enter)
EnterSharedLocals ==
    /\ k <= Len(elems)
    /\ k' = k + 1
    /\ IF "pathJS" \notin DOMAIN elems[k]
       THEN /\ entry' = <<>>
            /\ trace' = trace
            /\ elems' = elems
       ELSE LET kept == IF trace = <<>> THEN NewLocals ELSE trace[Len(trace)]
                r == Loop(elems[k].pathJS, 1, kept, <<kept>>)
            IN  /\ entry' = elems[k].pathJS
                /\ elems' = [elems EXCEPT ![k].pathJS = r.path]
                /\ trace' = r.trace
    /\ UNCHANGED <<input, round>>

\* enter(element) on the next element in document order; the serialized d
\* attribute written at the end (stringifyPathData) is not read by any step
Enter ==
    /\ k <= Len(elems)
    /\ k' = k + 1
    /\ IF "pathJS" \notin DOMAIN elems[k]
       THEN /\ entry' = <<>>
            /\ trace' = <<>>
            /\ elems' = elems
       ELSE LET r == ProcessPath(elems[k].pathJS)
            IN  /\ entry' = elems[k].pathJS
                /\ elems' = [elems EXCEPT ![k].pathJS = r.path]
                /\ trace' = r.trace
    /\ UNCHANGED <<input, round>>

\* runSVGO calls optimize() with multipass on by default: the plugin list, fixZ
\* included, runs over the document again.  The traversal is repeated here on
\* the arrays the previous one left, which is the re-application of the pass
\* to its own output.
Multipass ==
    /\ k > Len(elems)
    /\ round < MaxRounds
    /\ round' = round + 1
    /\ k' = 1
    /\ UNCHANGED <<input, elems, entry, trace>>

Next == Enter \/ Multipass

Spec == Init /\ [][Next]_vars

\* ---------------------------------------------------------------- properties
\* the element visited last, and whether that visit ran the pass on a path
Last == IF k = 1 THEN Len(elems) ELSE k - 1
Visited == trace # <<>> /\ "pathJS" \in DOMAIN elems[Last]
Out == elems[Last].pathJS

Movetos == {"m", "M"}
Linetos == {"l", "L", "h", "H", "v", "V"}
Curves == {"c", "C", "s", "S", "q", "Q", "t", "T", "a", "A"}
Closes == {"z", "Z"}
Relative == {"m", "l", "h", "v", "c", "s", "q", "t", "a"}
Origin == <<0, 0>>
ZeroArgClose == [command |-> "z", args |-> <<>>]

Largest(S) == CHOOSE x \in S : \A y \in S : y <= x

\* where a lineto-family entry takes the pen from position c
Displaced(c, item) ==
    CASE item.command = "l" -> <<c[1] + item.args[1], c[2] + item.args[2]>>
      [] item.command = "L" -> <<item.args[1], item.args[2]>>
      [] item.command = "h" -> <<c[1] + item.args[1], c[2]>>
      [] item.command = "H" -> <<item.args[1], c[2]>>
      [] item.command = "v" -> <<c[1], c[2] + item.args[1]>>
      [] item.command = "V" -> <<c[1], item.args[1]>>

\* position of the most recent moveto before entry i of the visited path, or the origin
SubPathStart(i) ==
    LET ms == {j \in 1..(i - 1) : entry[j].command \in Movetos}
    IN  IF ms = {} THEN Origin ELSE trace[Largest(ms) + 1].cursor

\* the last two arguments of an entry
FinalPair(item) == <<item.args[Len(item.args) - 1], item.args[Len(item.args)]>>

\* C1: the visited sequence has as many entries after the pass as before it,
\* and so has every path element of the document at every moment.
C1_LengthPreserved ==
    /\ Visited => Len(Out) = Len(entry)
    /\ \A e \in 1..Len(elems) :
          "pathJS" \in DOMAIN elems[e] => Len(elems[e].pathJS) = Len(input)

C1_Witness ==
    /\ Visited
    /\ Len(entry) = MaxLen
    /\ \E i \in 1..Len(entry) : Out[i] # entry[i]

\* C2: a lineto-family entry is replaced by the zero-argument closepath exactly
\* when, right after its displacement, the pen is at the position of the most
\* recent moveto (the origin when none precedes).
C2_ReplacedIffClosed ==
    Visited =>
        \A i \in 1..Len(entry) :
            entry[i].command \in Linetos =>
                ((Out[i] = ZeroArgClose) <=> (Displaced(trace[i].cursor, entry[i]) = SubPathStart(i)))

C2_Witness ==
    /\ Visited
    /\ \E i \in 1..Len(entry) :
          /\ entry[i].command \in Linetos
          /\ trace[i].cursor # SubPathStart(i)
          /\ Out[i] = ZeroArgClose
    /\ \E j \in 1..Len(entry) :
          /\ entry[j].command \in Linetos
          /\ Out[j] = entry[j]

\* C3: an entry that is not lineto-family keeps its letter and its arguments,
\* also when it brings the pen back to the sub-path start.
C3_OthersUntouched ==
    Visited =>
        \A i \in 1..Len(entry) :
            entry[i].command \notin Linetos => Out[i] = entry[i]

C3_Witness ==
    /\ Visited
    /\ \E i \in 1..Len(entry) :
          /\ entry[i].command \in Curves
          /\ trace[i].cursor # trace[i].start
          /\ trace[i + 1].cursor = trace[i + 1].start
          /\ Out[i] = entry[i]

\* C4: a pass over the output of an earlier pass changes no entry.
C4_Idempotent ==
    (round >= 2 /\ k > 1 /\ Visited) => Out = entry

C4_Witness ==
    /\ round >= 2 /\ k > 1 /\ Visited
    /\ entry # input
    /\ Out = entry

\* C5: after a moveto, start is the pen position that moveto produced; every
\* other entry leaves start as it was.
C5_StartFollowsMoveto ==
    Visited =>
        \A i \in 1..Len(entry) :
            IF entry[i].command \in Movetos
            THEN /\ trace[i + 1].cursor =
                        IF entry[i].command = "m"
                        THEN <<trace[i].cursor[1] + entry[i].args[1],
                               trace[i].cursor[2] + entry[i].args[2]>>
                        ELSE <<entry[i].args[1], entry[i].args[2]>>
                 /\ trace[i + 1].start = trace[i + 1].cursor
            ELSE trace[i + 1].start = trace[i].start

\* a relative moveto opens a sub-path away from the old start, and a later
\* lineto back to the old start is kept
C5_Witness ==
    /\ Visited
    /\ \E i \in 1..Len(entry) : \E j \in (i + 1)..Len(entry) :
          /\ entry[i].command = "m"
          /\ trace[i + 1].start # trace[i].start
          /\ entry[j].command \in Linetos
          /\ trace[j + 1].cursor = trace[i].start
          /\ Out[j] = entry[j]

\* C6: h and H change only x, v and V change only y, and such an entry that
\* ends on the sub-path start is replaced by closepath.
C6_HorizontalVertical ==
    Visited =>
        \A i \in 1..Len(entry) :
            LET c == trace[i].cursor
                d == trace[i + 1].cursor
                a == entry[i].args
            IN  /\ entry[i].command = "h" => d = <<c[1] + a[1], c[2]>>
                /\ entry[i].command = "H" => d = <<a[1], c[2]>>
                /\ entry[i].command = "v" => d = <<c[1], c[2] + a[1]>>
                /\ entry[i].command = "V" => d = <<c[1], a[1]>>
                /\ (entry[i].command \in {"h", "H", "v", "V"} /\ d = trace[i].start)
                      => Out[i] = ZeroArgClose

C6_Witness ==
    /\ Visited
    /\ \E i \in 1..Len(entry) :
          /\ entry[i].command = "H"
          /\ trace[i].cursor[2] # 0
          /\ Out[i] = ZeroArgClose

\* C7: every pass begins with start and cursor at the origin, and once the
\* traversal has visited every element, path elements that carried the same
\* data carry the same result, whatever was visited before them.
C7_Stateless ==
    /\ Visited => trace[1] = [start |-> Origin, cursor |-> Origin]
    /\ k > Len(elems) =>
          \A e, f \in 1..Len(elems) :
              ("pathJS" \in DOMAIN elems[e] /\ "pathJS" \in DOMAIN elems[f])
                  => elems[e].pathJS = elems[f].pathJS

\* the second element is visited after a pass that ended away from the origin
C7_Witness ==
    /\ Visited
    /\ round = 1 /\ k > Len(elems)
    /\ "pathJS" \in DOMAIN elems[1]
    /\ trace[Len(trace)].cursor # Origin
    /\ trace[Len(trace)].start # Origin
    /\ elems[1].pathJS # input
    /\ elems[2].pathJS = elems[1].pathJS

\* C8: a curve or arc entry moves the pen by its final argument pair only
\* (set for the absolute form, added for the relative form), found at
\* args[4..5] for C/c, [2..3] for S/s and Q/q, [0..1] for T/t, [5..6] for A/a,
\* and leaves start alone.
C8_CurveEndpoint ==
    Visited =>
        \A i \in 1..Len(entry) :
            entry[i].command \in Curves =>
                LET c == trace[i].cursor
                    e == FinalPair(entry[i])
                    first == CASE entry[i].command \in {"c", "C"} -> 4
                               [] entry[i].command \in {"s", "S", "q", "Q"} -> 2
                               [] entry[i].command \in {"t", "T"} -> 0
                               [] entry[i].command \in {"a", "A"} -> 5
                IN  /\ Len(entry[i].args) = first + 2
                    /\ trace[i + 1].cursor =
                          IF entry[i].command \in Relative
                          THEN <<c[1] + e[1], c[2] + e[2]>>
                          ELSE e
                    /\ trace[i + 1].start = trace[i].start

C8_Witness ==
    /\ Visited
    /\ \E i \in 1..Len(entry) :
          /\ entry[i].command \in {"s", "a"}
          /\ trace[i].cursor # Origin
          /\ FinalPair(entry[i]) # Origin
          /\ trace[i + 1].cursor # trace[i].cursor

\* C9: a closepath entry of the input puts the pen on start and keeps start.
C9_CloseResetsCursor ==
    Visited =>
        \A i \in 1..Len(entry) :
            entry[i].command \in Closes =>
                /\ trace[i + 1].cursor = trace[i].start
                /\ trace[i + 1].start = trace[i].start

C9_Witness ==
    /\ Visited
    /\ \E i \in 1..Len(entry) :
          /\ entry[i].command \in Closes
          /\ trace[i].cursor # trace[i].start

\* C10: tracking the output of the pass gives, after every entry, the cursor
\* and start that tracking the input gave.
C10_TrajectoryPreserved ==
    Visited => ProcessPath(Out).trace = trace

C10_Witness ==
    /\ Visited
    /\ \E i \in 1..Len(entry) :
          /\ Out[i] # entry[i]
          /\ trace[i].cursor # trace[i + 1].cursor

====
